---- MODULE Spec2Model ----
(***************************************************************************)
(* Model of drivers/regulator/multi-regulator.c: one logical regulator     *)
(* backed by an ordered list of supplies that are switched one at a time.  *)
(*                                                                         *)
(* The state is the driver's struct multi_regulator_data, the driver data  *)
(* pointer of the registered regulator_dev, and, for every task that can   *)
(* call into the driver, its position inside the operation it is running.  *)
(* Every call the driver makes to a collaborator (regulator_set_voltage,   *)
(* regulator_enable, regulator_disable, usleep_range) is appended to       *)
(* `calls`, which holds the calls of each task's current or latest         *)
(* operation.                                                              *)
(***************************************************************************)
EXTENDS Integers, Sequences, FiniteSets, TLC

(* ------------------------------ bounds -------------------------------- *)

\* largest number of strings in the "supply-names" property
MaxCount == 3

\* largest number of supplies when callers are interleaved
MaxRaceCount == 1

\* number of task slots of the model; the regulator core serializes the
\* operations of one regulator_dev, so Spec runs them all in SerialTasks
NumTasks == 2

(* ------------------------- program constants -------------------------- *)

EINVAL == 22
ENOMEM == 12

\* errors a supply can report (EIO, ETIMEDOUT); any nonzero rc is a failure
SupplyErrors == {-5, -110}

\* error devm_regulator_register can report (EBUSY)
RegisterErrors == {-16}

NULL == 0

Tasks == 1 .. NumTasks

\* the slot the serialized operations run in
SerialTasks == {1}

(* ----------------------- unsigned int (32 bit) ------------------------ *)
(* An unsigned int is kept as two 16-bit halves, value = hi * 2^16 + lo.   *)

Half == 65536

u32(h, l) == [hi |-> h, lo |-> l]

U32Zero == u32(0, 0)

\* `2 * x` evaluated in unsigned int: the carry out of bit 31 is dropped
MulTwo(x) ==
    [hi |-> (2 * x.hi + (2 * x.lo) \div Half) % Half, lo |-> (2 * x.lo) % Half]

(* --------------------------- device tree ------------------------------ *)
(* What probe reads for one index of the node: whether the name can be     *)
(* read and resolved, and the four per-index cells (0 also stands for a    *)
(* cell that is missing: the arrays are zero-allocated).                   *)

DtEntries ==
    { [resolve |-> "ok", min |-> u32(0, 1000), max |-> u32(0, 1100),
       pon |-> u32(0, 500), poff |-> u32(0, 200)],
      [resolve |-> "ok", min |-> U32Zero, max |-> U32Zero,
       pon |-> U32Zero, poff |-> U32Zero],
      [resolve |-> "ok", min |-> U32Zero, max |-> u32(0, 1100),
       pon |-> u32(32768, 0), poff |-> U32Zero],
      [resolve |-> "ok", min |-> u32(0, 1000), max |-> U32Zero,
       pon |-> U32Zero, poff |-> u32(65535, 65535)],
      [resolve |-> "no_name", min |-> u32(0, 1000), max |-> u32(0, 1100),
       pon |-> u32(0, 500), poff |-> u32(0, 200)],
      [resolve |-> "no_supply", min |-> u32(0, 1000), max |-> u32(0, 1100),
       pon |-> u32(0, 500), poff |-> u32(0, 200)] }

\* results of of_property_count_strings: an error, no string, or 1..MaxCount
DtCounts == {-EINVAL, 0} \cup (1 .. MaxCount)

\* a platform device without a node, or a node with its supply entries
DtNodes ==
    { [node |-> FALSE, count |-> 0, entries |-> <<>>] } \cup
    UNION { [node : {TRUE}, count : {c}, entries : [0 .. c - 1 -> DtEntries]] :
            c \in DtCounts }

(* ------------------------------ state --------------------------------- *)

VARIABLES
    dt,        \* the device-tree node handed to probe
    probe,     \* [done, rc]: whether probe has run and what it returned
    data,      \* struct multi_regulator_data
    drvdata,   \* TRUE when the regulator_dev is registered with data
    pc,        \* per task: position in the running operation, or "idle"
    i,         \* per task: the loop variable i
    ret,       \* per task: value returned by the latest operation
    cur,       \* per task: [op, was_enabled] of the current/latest operation
    calls,     \* collaborator calls of each task's current/latest operation
    supply     \* per index: what the supply has been asked so far

vars == <<dt, probe, data, drvdata, pc, i, ret, cur, calls, supply>>

\* handle devm_regulator_get returns for the name at index k
Handle(k) == k + 1

\* data before probe has allocated it
NoData ==
    [count |-> 0, enabled |-> FALSE, regulators |-> <<>>, min_uV |-> <<>>,
     max_uV |-> <<>>, pon_delay_us |-> <<>>, poff_delay_us |-> <<>>]

NoOp == [op |-> "none", was_enabled |-> FALSE]

\* a supply nothing was asked of yet: `last` is the latest request (a
\* failed enable request is told apart), `held` whether a successful enable
\* request is not yet matched by a disable request
NoRequest == [last |-> "none", held |-> FALSE]

Init ==
    /\ dt \in DtNodes
    /\ probe = [done |-> FALSE, rc |-> 0]
    /\ data = NoData
    /\ drvdata = FALSE
    /\ pc = [t \in Tasks |-> "idle"]
    /\ i = [t \in Tasks |-> 0]
    /\ ret = [t \in Tasks |-> 0]
    /\ cur = [t \in Tasks |-> NoOp]
    /\ calls = <<>>
    /\ supply = [k \in 0 .. dt.count - 1 |-> NoRequest]

(* ------------------------------ probe --------------------------------- *)

CountNegative(c) == c < 0

\* line 128: if (count <= 0)
CountInvalid(c) == c <= 0

\* the parse loop without its two `continue`s: the cells of an unresolved
\* index are read all the same
ProbeDataNoSkip(node) ==
    LET ok(k) == node.entries[k].resolve = "ok"
        idx == 0 .. node.count - 1
    IN [count |-> node.count,
        enabled |-> FALSE,
        regulators |-> [k \in idx |-> IF ok(k) THEN Handle(k) ELSE NULL],
        min_uV |-> [k \in idx |-> node.entries[k].min],
        max_uV |-> [k \in idx |-> node.entries[k].max],
        pon_delay_us |-> [k \in idx |-> node.entries[k].pon],
        poff_delay_us |-> [k \in idx |-> node.entries[k].poff]]

\* the arrays as the parse loop leaves them: an index whose name cannot be
\* read or resolved keeps the zeroes of devm_kzalloc and a NULL regulator
ProbeData(node) ==
    LET ok(k) == node.entries[k].resolve = "ok"
        idx == 0 .. node.count - 1
    IN [count |-> node.count,
        enabled |-> FALSE,
        regulators |-> [k \in idx |-> IF ok(k) THEN Handle(k) ELSE NULL],
        min_uV |-> [k \in idx |-> IF ok(k) THEN node.entries[k].min ELSE U32Zero],
        max_uV |-> [k \in idx |-> IF ok(k) THEN node.entries[k].max ELSE U32Zero],
        pon_delay_us |->
            [k \in idx |-> IF ok(k) THEN node.entries[k].pon ELSE U32Zero],
        poff_delay_us |->
            [k \in idx |-> IF ok(k) THEN node.entries[k].poff ELSE U32Zero]]

\* alloc_ok: the devm_kzalloc calls succeed; init_ok: of_get_regulator_init_data
\* returns init data; reg_rc: 0 or the error of devm_regulator_register
multi_regulator_probe ==
    /\ ~probe.done
    /\ \E alloc_ok \in BOOLEAN, init_ok \in BOOLEAN,
          reg_rc \in {0} \cup RegisterErrors :
          IF ~dt.node \/ CountInvalid(dt.count)
          THEN /\ probe' = [done |-> TRUE, rc |-> -EINVAL]
               /\ UNCHANGED <<data, drvdata>>
          ELSE IF ~alloc_ok
          THEN /\ probe' = [done |-> TRUE, rc |-> -ENOMEM]
               /\ UNCHANGED <<data, drvdata>>
          ELSE IF ~init_ok
          THEN /\ probe' = [done |-> TRUE, rc |-> -EINVAL]
               /\ data' = ProbeData(dt)
               /\ UNCHANGED drvdata
          ELSE /\ probe' = [done |-> TRUE, rc |-> reg_rc]
               /\ data' = ProbeData(dt)
               /\ drvdata' = (reg_rc = 0)
    /\ UNCHANGED <<dt, supply, pc, i, ret, cur, calls>>

(* ---------------------------- collaborators --------------------------- *)

\* one collaborator call: who called, which function, for which index, on
\* which handle, with which two arguments, whether it returned and what
Call(t, fn, k, reg, a, b, returned, rc) ==
    [t |-> t, fn |-> fn, i |-> k, reg |-> reg, a |-> a, b |-> b,
     returned |-> returned, rc |-> rc]

\* what a request to a supply can do: return success or an error; on a NULL
\* handle the consumer API dereferences it, so it may also never return
SupplyOutcomes(reg) ==
    { [returned |-> TRUE, rc |-> r] : r \in {0} \cup SupplyErrors } \cup
    (IF reg = NULL THEN { [returned |-> FALSE, rc |-> 0] } ELSE {})

\* `held` after a request: a successful enable request is held until the
\* next disable request
Held(h, fn, ok) ==
    IF fn = "regulator_enable" /\ ok THEN TRUE
    ELSE IF fn = "regulator_disable" THEN FALSE
    ELSE h

\* the supplies after request fn to index k ended with outcome out
Requested(k, fn, out) ==
    LET ok == out.returned /\ out.rc = 0
    IN [supply EXCEPT ![k] =
            [last |-> IF fn = "regulator_enable" /\ ~ok
                      THEN "regulator_enable failed" ELSE fn,
             held |-> Held(@.held, fn, ok)]]

\* the calls of task t's current or latest operation
CallsOf(t) == SelectSeq(calls, LAMBDA e : e.t = t)

\* a task entering an operation starts with no calls of its own
Forget(t) == SelectSeq(calls, LAMBDA e : e.t # t)

\* the caller serializes the operations: none starts while one is running
Serialized == \A u \in Tasks : pc[u] = "idle"

(* ------------------------------ enable -------------------------------- *)

NeedSetVoltageBoth(k) == data.min_uV[k] # U32Zero /\ data.max_uV[k] # U32Zero

\* line 40: is a voltage window configured for index k
NeedSetVoltage(k) == data.min_uV[k] # U32Zero \/ data.max_uV[k] # U32Zero

SameIndex(k) == k

\* lines 39 and 77: i++
NextIndex(k) == k + 1

NeverEnabled == FALSE

\* line 34: if (data->enabled)
AlreadyEnabled == data.enabled

SetVoltageIgnored(rc) == FALSE

\* line 43: if (rc) after regulator_set_voltage
SetVoltageFailed(rc) == rc # 0

EnableIgnored(rc) == FALSE

StepErrorPropagated(rc) == rc

\* lines 46 and 54: return -EINVAL, whatever rc was
StepError(rc) == -EINVAL

\* line 51: if (rc) after regulator_enable
EnableFailed(rc) == rc # 0

\* lines 29-37: entry, and the early return when already enabled
multi_regulator_enable(t) ==
    /\ pc[t] = "idle"
    /\ drvdata
    /\ cur' = [cur EXCEPT ![t] = [op |-> "enable", was_enabled |-> data.enabled]]
    /\ calls' = Forget(t)
    /\ IF AlreadyEnabled
       THEN /\ ret' = [ret EXCEPT ![t] = 0]
            /\ UNCHANGED <<pc, i>>
       ELSE /\ pc' = [pc EXCEPT ![t] = "enable_for"]
            /\ i' = [i EXCEPT ![t] = 0]
            /\ UNCHANGED ret
    /\ UNCHANGED <<dt, supply, probe, data, drvdata>>

\* line 39 and lines 63-64: the loop test, and the return after the loop
enable_for(t) ==
    /\ pc[t] = "enable_for"
    /\ IF i[t] < data.count
       THEN /\ pc' = [pc EXCEPT ![t] = IF NeedSetVoltage(i[t])
                                       THEN "enable_set_voltage"
                                       ELSE "enable_regulator"]
            /\ UNCHANGED <<data, ret>>
       ELSE /\ data' = [data EXCEPT !.enabled = TRUE]
            /\ ret' = [ret EXCEPT ![t] = 0]
            /\ pc' = [pc EXCEPT ![t] = "idle"]
    /\ UNCHANGED <<dt, supply, probe, drvdata, i, cur, calls>>

\* lines 41-47: regulator_set_voltage and the abort on failure
enable_set_voltage(t) ==
    /\ pc[t] = "enable_set_voltage"
    /\ \E out \in SupplyOutcomes(data.regulators[i[t]]) :
          /\ calls' = Append(calls,
                 Call(t, "regulator_set_voltage", i[t], data.regulators[i[t]],
                      data.min_uV[i[t]], data.max_uV[i[t]], out.returned, out.rc))
          /\ supply' = Requested(i[t], "regulator_set_voltage", out)
          /\ IF ~out.returned
             THEN /\ pc' = [pc EXCEPT ![t] = "oops"]
                  /\ UNCHANGED ret
             ELSE IF SetVoltageFailed(out.rc)
             THEN /\ ret' = [ret EXCEPT ![t] = StepError(out.rc)]
                  /\ pc' = [pc EXCEPT ![t] = "idle"]
             ELSE /\ pc' = [pc EXCEPT ![t] = "enable_regulator"]
                  /\ UNCHANGED ret
    /\ UNCHANGED <<dt, probe, data, drvdata, i, cur>>

enable_regulator_marks(t) ==
    /\ pc[t] = "enable_regulator"
    /\ \E out \in SupplyOutcomes(data.regulators[i[t]]) :
          /\ calls' = Append(calls,
                 Call(t, "regulator_enable", i[t], data.regulators[i[t]],
                      U32Zero, U32Zero, out.returned, out.rc))
          /\ supply' = Requested(i[t], "regulator_enable", out)
          /\ IF ~out.returned
             THEN /\ pc' = [pc EXCEPT ![t] = "oops"]
                  /\ UNCHANGED <<ret, data>>
             ELSE IF EnableFailed(out.rc)
             THEN /\ ret' = [ret EXCEPT ![t] = StepError(out.rc)]
                  /\ pc' = [pc EXCEPT ![t] = "idle"]
                  /\ UNCHANGED data
             ELSE /\ pc' = [pc EXCEPT ![t] = "enable_delay"]
                  /\ data' = [data EXCEPT !.enabled = TRUE]
                  /\ UNCHANGED ret
    /\ UNCHANGED <<dt, probe, drvdata, i, cur>>

\* lines 50-55: regulator_enable and the abort on failure
enable_regulator(t) ==
    /\ pc[t] = "enable_regulator"
    /\ \E out \in SupplyOutcomes(data.regulators[i[t]]) :
          /\ calls' = Append(calls,
                 Call(t, "regulator_enable", i[t], data.regulators[i[t]],
                      U32Zero, U32Zero, out.returned, out.rc))
          /\ supply' = Requested(i[t], "regulator_enable", out)
          /\ IF ~out.returned
             THEN /\ pc' = [pc EXCEPT ![t] = "oops"]
                  /\ UNCHANGED ret
             ELSE IF EnableFailed(out.rc)
             THEN /\ ret' = [ret EXCEPT ![t] = StepError(out.rc)]
                  /\ pc' = [pc EXCEPT ![t] = "idle"]
             ELSE /\ pc' = [pc EXCEPT ![t] = "enable_delay"]
                  /\ UNCHANGED ret
    /\ UNCHANGED <<dt, probe, data, drvdata, i, cur>>

enable_delay_skipped(t) ==
    /\ pc[t] = "enable_delay"
    /\ i' = [i EXCEPT ![t] = i[t] + 1]
    /\ pc' = [pc EXCEPT ![t] = "enable_for"]
    /\ UNCHANGED <<dt, supply, probe, data, drvdata, ret, cur, calls>>

\* lines 57-61: the power-on delay, then i++
enable_delay(t) ==
    /\ pc[t] = "enable_delay"
    /\ calls' = IF data.pon_delay_us[i[t]] # U32Zero
                THEN Append(calls,
                        Call(t, "usleep_range", i[t], NULL,
                             data.pon_delay_us[i[t]],
                             MulTwo(data.pon_delay_us[i[t]]), TRUE, 0))
                ELSE calls
    /\ i' = [i EXCEPT ![t] = NextIndex(i[t])]
    /\ pc' = [pc EXCEPT ![t] = "enable_for"]
    /\ UNCHANGED <<dt, supply, probe, data, drvdata, ret, cur>>

(* ------------------------------ disable ------------------------------- *)

NeverDisabled == FALSE

\* line 72: if (!data->enabled)
AlreadyDisabled == ~data.enabled

\* lines 67-75: entry, and the early return when already disabled
multi_regulator_disable(t) ==
    /\ pc[t] = "idle"
    /\ drvdata
    /\ cur' = [cur EXCEPT ![t] = [op |-> "disable", was_enabled |-> data.enabled]]
    /\ calls' = Forget(t)
    /\ IF AlreadyDisabled
       THEN /\ ret' = [ret EXCEPT ![t] = 0]
            /\ UNCHANGED <<pc, i>>
       ELSE /\ pc' = [pc EXCEPT ![t] = "disable_for"]
            /\ i' = [i EXCEPT ![t] = 0]
            /\ UNCHANGED ret
    /\ UNCHANGED <<dt, supply, probe, data, drvdata>>

disable_for_keeps_flag(t) ==
    /\ pc[t] = "disable_for"
    /\ IF i[t] < data.count
       THEN /\ pc' = [pc EXCEPT ![t] = "disable_regulator"]
            /\ UNCHANGED ret
       ELSE /\ ret' = [ret EXCEPT ![t] = 0]
            /\ pc' = [pc EXCEPT ![t] = "idle"]
    /\ UNCHANGED <<dt, supply, probe, data, drvdata, i, cur, calls>>

\* line 77 and lines 90-91: the loop test, and the return after the loop
disable_for(t) ==
    /\ pc[t] = "disable_for"
    /\ IF i[t] < data.count
       THEN /\ pc' = [pc EXCEPT ![t] = "disable_regulator"]
            /\ UNCHANGED <<data, ret>>
       ELSE /\ data' = [data EXCEPT !.enabled = FALSE]
            /\ ret' = [ret EXCEPT ![t] = 0]
            /\ pc' = [pc EXCEPT ![t] = "idle"]
    /\ UNCHANGED <<dt, supply, probe, drvdata, i, cur, calls>>

disable_regulator_failfast(t) ==
    /\ pc[t] = "disable_regulator"
    /\ \E out \in SupplyOutcomes(data.regulators[i[t]]) :
          /\ calls' = Append(calls,
                 Call(t, "regulator_disable", i[t], data.regulators[i[t]],
                      U32Zero, U32Zero, out.returned, out.rc))
          /\ supply' = Requested(i[t], "regulator_disable", out)
          /\ IF ~out.returned
             THEN /\ pc' = [pc EXCEPT ![t] = "oops"]
                  /\ UNCHANGED ret
             ELSE IF out.rc # 0
             THEN /\ ret' = [ret EXCEPT ![t] = -EINVAL]
                  /\ pc' = [pc EXCEPT ![t] = "idle"]
             ELSE /\ pc' = [pc EXCEPT ![t] = "disable_delay"]
                  /\ UNCHANGED ret
    /\ UNCHANGED <<dt, probe, data, drvdata, i, cur>>

\* lines 78-82: regulator_disable; a failure is only warned about
disable_regulator(t) ==
    /\ pc[t] = "disable_regulator"
    /\ \E out \in SupplyOutcomes(data.regulators[i[t]]) :
          /\ calls' = Append(calls,
                 Call(t, "regulator_disable", i[t], data.regulators[i[t]],
                      U32Zero, U32Zero, out.returned, out.rc))
          /\ supply' = Requested(i[t], "regulator_disable", out)
          /\ pc' = [pc EXCEPT ![t] = IF out.returned THEN "disable_delay"
                                                     ELSE "oops"]
    /\ UNCHANGED <<dt, probe, data, drvdata, i, ret, cur>>

\* lines 84-88: the power-off delay, then i++
disable_delay(t) ==
    /\ pc[t] = "disable_delay"
    /\ calls' = IF data.poff_delay_us[i[t]] # U32Zero
                THEN Append(calls,
                        Call(t, "usleep_range", i[t], NULL,
                             data.poff_delay_us[i[t]],
                             MulTwo(data.poff_delay_us[i[t]]), TRUE, 0))
                ELSE calls
    /\ i' = [i EXCEPT ![t] = NextIndex(i[t])]
    /\ pc' = [pc EXCEPT ![t] = "disable_for"]
    /\ UNCHANGED <<dt, supply, probe, data, drvdata, ret, cur>>

(* ----------------------------- is_enabled ----------------------------- *)

IsEnabledStuck == IF drvdata THEN 1 ELSE 0

\* line 97: data ? data->enabled : 0
IsEnabledValue == IF drvdata THEN (IF data.enabled THEN 1 ELSE 0) ELSE 0

\* lines 94-98: rdev_get_drvdata gives NULL while no data is registered
multi_regulator_is_enabled(t) ==
    /\ pc[t] = "idle"
    /\ cur' = [cur EXCEPT ![t] =
                  [op |-> "is_enabled", was_enabled |-> data.enabled]]
    /\ calls' = Forget(t)
    /\ ret' = [ret EXCEPT ![t] = IsEnabledValue]
    /\ UNCHANGED <<dt, supply, probe, data, drvdata, pc, i>>

(* --------------------------- specification ---------------------------- *)

\* operations as the regulator core drives them: one at a time
Next ==
    \/ multi_regulator_probe
    \/ \E t \in SerialTasks :
          \/ Serialized /\ multi_regulator_enable(t)
          \/ Serialized /\ multi_regulator_disable(t)
          \/ Serialized /\ multi_regulator_is_enabled(t)
          \/ enable_for(t)
          \/ enable_set_voltage(t)
          \/ enable_regulator(t)
          \/ enable_delay(t)
          \/ disable_for(t)
          \/ disable_regulator(t)
          \/ disable_delay(t)

Spec == Init /\ [][Next]_vars

\* supplies for interleaved callers: one with a voltage window and delays,
\* one with neither
RaceEntries ==
    { n \in DtEntries :
        /\ n.resolve = "ok"
        /\ (n.min = U32Zero <=> n.max = U32Zero)
        /\ n.pon \in {U32Zero, u32(0, 500)} }

InitRace ==
    /\ Init
    /\ dt.count <= MaxRaceCount
    /\ \A k \in 0 .. dt.count - 1 : dt.entries[k] \in RaceEntries

\* the two callers whose operations are interleaved
RaceTasks == {1, 2}

\* operations of callers that do not serialize them: either task may enter
\* an operation while the other's is in progress
NextRace ==
    \/ multi_regulator_probe
    \/ \E t \in RaceTasks :
          \/ multi_regulator_enable(t)
          \/ multi_regulator_disable(t)
          \/ multi_regulator_is_enabled(t)
          \/ enable_for(t)
          \/ enable_set_voltage(t)
          \/ enable_regulator(t)
          \/ enable_delay(t)
          \/ disable_for(t)
          \/ disable_regulator(t)
          \/ disable_delay(t)

SpecRace == InitRace /\ [][NextRace]_vars

\* the steps of the operation task t is running
Step(t) ==
    \/ enable_for(t)
    \/ enable_set_voltage(t)
    \/ enable_regulator(t)
    \/ enable_delay(t)
    \/ disable_for(t)
    \/ disable_regulator(t)
    \/ disable_delay(t)

\* the kinds of entry that make a pass take different steps: a supply with
\* a voltage window and delays, one with neither, one that is unresolved
FairEntries ==
    { n \in DtEntries :
        \/ n.resolve = "no_supply"
        \/ n.resolve = "ok" /\ n.min = U32Zero /\ n.max = U32Zero
        \/ n.resolve = "ok" /\ n.min # U32Zero /\ n.max # U32Zero }

InitFair == Init /\ \A k \in 0 .. dt.count - 1 : dt.entries[k] \in FairEntries

\* the calling thread keeps running: an operation that can take its next
\* step takes it (a collaborator call that returns, a delay that ends)
FairSpec ==
    InitFair /\ [][Next]_vars /\ \A t \in SerialTasks : WF_vars(Step(t))

(* ------------------------------ claims -------------------------------- *)

\* positions in c of the calls of function fn for index k
At(c, fn, k) == { n \in DOMAIN c : c[n].fn = fn /\ c[n].i = k }

\* index k got exactly one enable request, which succeeded, and no disable
LeftOn(c, k) ==
    /\ Cardinality(At(c, "regulator_enable", k)) = 1
    /\ \A n \in At(c, "regulator_enable", k) : c[n].returned /\ c[n].rc = 0
    /\ At(c, "regulator_disable", k) = {}

\* enable() of task t ran its loop (the rail was disabled on entry)
EnableRan(t) == cur[t].op = "enable" /\ ~cur[t].was_enabled

\* disable() of task t ran its loop (the rail was enabled on entry)
DisableRan(t) == cur[t].op = "disable" /\ cur[t].was_enabled

\* C1: once the enable request to supply k has failed, enable() has returned
\* failure, that request is the last call made, supplies 0..k-1 each got
\* one successful enable request and no disable request, no call concerns
\* an index above k, and enabled is still false.
C1_FailFastEnable ==
    \A t \in Tasks :
        LET c == CallsOf(t) IN
        \A n \in DOMAIN c :
            (EnableRan(t) /\ c[n].fn = "regulator_enable"
                /\ c[n].returned /\ c[n].rc # 0)
            => /\ pc[t] = "idle"
               /\ ret[t] < 0
               /\ n = Len(c)
               /\ \A j \in 0 .. c[n].i - 1 : LeftOn(c, j)
               /\ \A m \in DOMAIN c : c[m].i <= c[n].i
               /\ ~data.enabled

\* supply 1 of 3 failed to enable
C1_Witness ==
    \E t \in Tasks :
        LET c == CallsOf(t) IN
        /\ EnableRan(t) /\ pc[t] = "idle" /\ data.count = 3
        /\ \E n \in DOMAIN c :
              c[n].fn = "regulator_enable" /\ c[n].i = 1 /\ c[n].rc # 0

\* C2: once the set-voltage request for supply k has failed, enable() has
\* returned failure, no enable request was issued for k, no call concerns
\* an index above k, supplies 0..k-1 are left on, and enabled is false.
C2_SetVoltageAborts ==
    \A t \in Tasks :
        LET c == CallsOf(t) IN
        \A n \in DOMAIN c :
            (EnableRan(t) /\ c[n].fn = "regulator_set_voltage"
                /\ c[n].returned /\ c[n].rc # 0)
            => /\ pc[t] = "idle"
               /\ ret[t] < 0
               /\ n = Len(c)
               /\ At(c, "regulator_enable", c[n].i) = {}
               /\ \A j \in 0 .. c[n].i - 1 : LeftOn(c, j)
               /\ \A m \in DOMAIN c : c[m].i <= c[n].i
               /\ ~data.enabled

\* the set-voltage request of supply 1 of 3 failed
C2_Witness ==
    \E t \in Tasks :
        LET c == CallsOf(t) IN
        /\ EnableRan(t) /\ pc[t] = "idle" /\ data.count = 3
        /\ \E n \in DOMAIN c :
              c[n].fn = "regulator_set_voltage" /\ c[n].i = 1 /\ c[n].rc # 0

\* C3: when disable() has returned from an enabled rail, whichever disable
\* requests failed, every index 0..count-1 got exactly one disable request,
\* the return value is success and enabled is false.
C3_BestEffortDisable ==
    \A t \in Tasks :
        (DisableRan(t) /\ pc[t] = "idle")
        => /\ ret[t] = 0
           /\ ~data.enabled
           /\ \A k \in 0 .. data.count - 1 :
                 Cardinality(At(CallsOf(t), "regulator_disable", k)) = 1
           /\ \A n \in DOMAIN CallsOf(t) :
                 CallsOf(t)[n].fn \in {"regulator_disable", "usleep_range"}

\* supply 1 of 3 failed to disable, supplies 0 and 2 did not
C3_Witness ==
    \E t \in Tasks :
        LET c == CallsOf(t) IN
        /\ DisableRan(t) /\ pc[t] = "idle" /\ data.count = 3
        /\ \A n \in DOMAIN c :
              c[n].fn = "regulator_disable" => (c[n].rc # 0 <=> c[n].i = 1)

\* the function and index of each call of c, in the order they were made
Shape(c) == [n \in DOMAIN c |-> <<c[n].fn, c[n].i>>]

IsPrefix(a, b) == Len(a) <= Len(b) /\ a = SubSeq(b, 1, Len(a))

\* the calls a full enable pass makes for indexes k..count-1, from the
\* descriptors: (set-voltage), enable, (power-on delay), index by index
RECURSIVE EnableOrder(_)
EnableOrder(k) ==
    IF k >= data.count THEN <<>>
    ELSE (IF data.min_uV[k] = U32Zero /\ data.max_uV[k] = U32Zero
          THEN <<>> ELSE << <<"regulator_set_voltage", k>> >>)
         \o << <<"regulator_enable", k>> >>
         \o (IF data.pon_delay_us[k] = U32Zero
             THEN <<>> ELSE << <<"usleep_range", k>> >>)
         \o EnableOrder(k + 1)

\* the calls a disable pass makes: disable, (power-off delay), ascending
RECURSIVE DisableOrder(_)
DisableOrder(k) ==
    IF k >= data.count THEN <<>>
    ELSE << <<"regulator_disable", k>> >>
         \o (IF data.poff_delay_us[k] = U32Zero
             THEN <<>> ELSE << <<"usleep_range", k>> >>)
         \o DisableOrder(k + 1)

\* C4: at every point of an enable() pass the calls made so far are a
\* prefix of (set-voltage(i)), enable(i), (power-on delay of i) for
\* i = 0, 1, .. in ascending order, and the whole of it when enable() has
\* returned success; likewise a disable() pass makes disable(i),
\* (power-off delay of i) for i = 0, 1, .. ascending, all of it on return.
C4_SequencingOrder ==
    \A t \in Tasks :
        /\ EnableRan(t) =>
              /\ IsPrefix(Shape(CallsOf(t)), EnableOrder(0))
              /\ (pc[t] = "idle" /\ ret[t] = 0)
                    => Shape(CallsOf(t)) = EnableOrder(0)
        /\ DisableRan(t) =>
              /\ IsPrefix(Shape(CallsOf(t)), DisableOrder(0))
              /\ pc[t] = "idle" => Shape(CallsOf(t)) = DisableOrder(0)

\* a 3-supply enable() returned success after a set-voltage request and a
\* power-on delay
C4_Witness ==
    \E t \in Tasks :
        LET c == CallsOf(t) IN
        /\ EnableRan(t) /\ pc[t] = "idle" /\ ret[t] = 0 /\ data.count = 3
        /\ \E n \in DOMAIN c : c[n].fn = "regulator_set_voltage"
        /\ \E n \in DOMAIN c : c[n].fn = "usleep_range"

\* C5: enable() entered with enabled true has returned success, made no
\* collaborator call (no request, no delay) and left enabled true.
C5_IdempotentEnable ==
    \A t \in Tasks :
        (cur[t].op = "enable" /\ cur[t].was_enabled)
        => /\ pc[t] = "idle"
           /\ ret[t] = 0
           /\ CallsOf(t) = <<>>
           /\ data.enabled

\* enable() was called on an enabled rail
C5_Witness ==
    \E t \in Tasks :
        cur[t].op = "enable" /\ cur[t].was_enabled /\ pc[t] = "idle"

\* C6: disable() entered with enabled false has returned success, made no
\* collaborator call (no request, no delay) and left enabled false.
C6_IdempotentDisable ==
    \A t \in Tasks :
        (cur[t].op = "disable" /\ ~cur[t].was_enabled)
        => /\ pc[t] = "idle"
           /\ ret[t] = 0
           /\ CallsOf(t) = <<>>
           /\ ~data.enabled

\* disable() was called on a disabled rail
C6_Witness ==
    \E t \in Tasks :
        cur[t].op = "disable" /\ ~cur[t].was_enabled /\ pc[t] = "idle"

\* C7 (as claimed): no set-voltage, enable or disable request is ever
\* issued for a descriptor whose handle is absent.
C7_UnresolvedSkipped ==
    \A n \in DOMAIN calls :
        calls[n].fn \in {"regulator_set_voltage", "regulator_enable",
                         "regulator_disable"}
        => calls[n].reg # NULL

\* C8: during enable(), every set-voltage request is for an index whose
\* min_uV or max_uV is nonzero and carries exactly [min_uV, max_uV]; every
\* enable request for such an index comes right after the set-voltage
\* request for it, and for an index with min_uV = max_uV = 0 there is no
\* set-voltage request at all.
C8_VoltageSkip ==
    \A t \in Tasks :
        LET c == CallsOf(t) IN
        EnableRan(t) =>
            \A n \in DOMAIN c :
                LET k == c[n].i
                    window == data.min_uV[k] # U32Zero \/ data.max_uV[k] # U32Zero
                IN /\ c[n].fn = "regulator_set_voltage"
                        => /\ window
                           /\ c[n].a = data.min_uV[k]
                           /\ c[n].b = data.max_uV[k]
                   /\ c[n].fn = "regulator_enable"
                        => IF window
                           THEN /\ n > 1
                                /\ c[n - 1].fn = "regulator_set_voltage"
                                /\ c[n - 1].i = k
                           ELSE At(c, "regulator_set_voltage", k) = {}

\* a set-voltage request with only max_uV nonzero was followed by the
\* enable request, and a supply without a window was enabled as well
C8_Witness ==
    \E t \in Tasks :
        LET c == CallsOf(t) IN
        /\ EnableRan(t)
        /\ \E n \in DOMAIN c :
              /\ c[n].fn = "regulator_enable"
              /\ data.min_uV[c[n].i] = U32Zero
              /\ data.max_uV[c[n].i] # U32Zero
        /\ \E n \in DOMAIN c :
              /\ c[n].fn = "regulator_enable"
              /\ data.min_uV[c[n].i] = U32Zero
              /\ data.max_uV[c[n].i] = U32Zero

\* C9: is_enabled() has returned at once, with 1 when enabled is true and
\* the data is registered and 0 otherwise (0 when the data is absent);
\* it made no collaborator call and left enabled and the descriptors as
\* they were.
C9_IsEnabledPure ==
    \A t \in Tasks :
        cur[t].op = "is_enabled"
        => /\ pc[t] = "idle"
           /\ CallsOf(t) = <<>>
           /\ data.enabled = cur[t].was_enabled
           /\ ret[t] = (IF drvdata /\ cur[t].was_enabled THEN 1 ELSE 0)
           /\ data = NoData \/ [data EXCEPT !.enabled = FALSE] = ProbeData(dt)

\* is_enabled() was called on an enabled rail
C9_Witness ==
    \E t \in Tasks :
        cur[t].op = "is_enabled" /\ drvdata /\ data.enabled /\ ret[t] = 1

\* twice x as a number: the high half is not cut to 16 bits
Twice(x) ==
    [hi |-> 2 * x.hi + (2 * x.lo) \div Half, lo |-> (2 * x.lo) % Half]

\* a < b as numbers
Below(a, b) == a.hi < b.hi \/ (a.hi = b.hi /\ a.lo < b.lo)

\* C10 (as claimed): every sleep requested has a nonzero lower bound d
\* and the upper bound 2 * d, which is not below d.
C10_DelayBounds ==
    \A n \in DOMAIN calls :
        calls[n].fn = "usleep_range"
        => /\ calls[n].a # U32Zero
           /\ calls[n].b = Twice(calls[n].a)
           /\ ~Below(calls[n].b, calls[n].a)

\* C11: once probe has run on a node whose supply count is zero or
\* negative it has returned -EINVAL and registered nothing; whenever a
\* sequencer is registered its count is at least 1.
C11_ConstructionValidation ==
    /\ (probe.done /\ dt.node /\ dt.count <= 0)
          => (probe.rc = -EINVAL /\ ~drvdata)
    /\ drvdata => (probe.done /\ probe.rc = 0 /\ data.count >= 1)

\* probe has run on a node with no supply name
C11_Witness == probe.done /\ dt.node /\ dt.count = 0 /\ probe.rc = -EINVAL

\* C12: once probe has built the descriptors, an index whose name could
\* not be resolved has a NULL handle and min_uV, max_uV and both delays
\* zero, every other index has its handle and the configured values, and
\* before any operation has run enabled is false; an unresolved index does
\* not keep the sequencer from being registered (the witness).
C12_PermissiveConstruction ==
    /\ data # NoData =>
          /\ data.count = dt.count
          /\ \A k \in 0 .. dt.count - 1 :
                IF dt.entries[k].resolve = "ok"
                THEN /\ data.regulators[k] # NULL
                     /\ data.min_uV[k] = dt.entries[k].min
                     /\ data.max_uV[k] = dt.entries[k].max
                     /\ data.pon_delay_us[k] = dt.entries[k].pon
                     /\ data.poff_delay_us[k] = dt.entries[k].poff
                ELSE /\ data.regulators[k] = NULL
                     /\ data.min_uV[k] = U32Zero
                     /\ data.max_uV[k] = U32Zero
                     /\ data.pon_delay_us[k] = U32Zero
                     /\ data.poff_delay_us[k] = U32Zero
    /\ (\A t \in Tasks : cur[t].op = "none") => ~data.enabled

\* a sequencer of three was registered although the supply of index 1
\* could not be resolved, the other two keeping a voltage window
C12_Witness ==
    /\ drvdata /\ probe.rc = 0 /\ data.count = 3
    /\ dt.entries[1].resolve = "no_supply"
    /\ data.regulators[0] # NULL /\ data.regulators[2] # NULL
    /\ data.max_uV[0] # U32Zero /\ data.max_uV[2] # U32Zero
    /\ \A t \in Tasks : cur[t].op = "none"

\* C13: whenever a set-voltage or enable request of an enable() pass has
\* failed, at whatever index and with whatever error, enable() has returned
\* -EINVAL; and enable() returns nothing but 0 and -EINVAL.
C13_UniformFailure ==
    \A t \in Tasks :
        LET c == CallsOf(t) IN
        cur[t].op = "enable" =>
            /\ ret[t] \in {0, -EINVAL}
            /\ \A n \in DOMAIN c :
                  (c[n].returned /\ c[n].rc # 0)
                  => (pc[t] = "idle" /\ ret[t] = -EINVAL)

\* the set-voltage request of index 1 failed with one error, after the
\* supply of index 0 was enabled
C13_Witness ==
    \E t \in Tasks :
        LET c == CallsOf(t) IN
        /\ cur[t].op = "enable" /\ pc[t] = "idle" /\ ret[t] = -EINVAL
        /\ \E n \in DOMAIN c :
              /\ c[n].fn = "regulator_set_voltage" /\ c[n].i = 1
              /\ c[n].rc = -110

\* C14: while an enable() pass is in progress enabled is false, and if
\* enabled is true after the pass, the pass has returned success having
\* made all its calls, the power-on delay of the last supply included;
\* while a disable() pass is in progress enabled is true, and if enabled is
\* false after it, the pass has returned having made all its calls.
C14_FlagAtEnd ==
    \A t \in Tasks :
        /\ EnableRan(t) =>
              /\ pc[t] # "idle" => ~data.enabled
              /\ data.enabled =>
                    /\ pc[t] = "idle" /\ ret[t] = 0
                    /\ Shape(CallsOf(t)) = EnableOrder(0)
        /\ DisableRan(t) =>
              /\ pc[t] # "idle" => data.enabled
              /\ ~data.enabled =>
                    /\ pc[t] = "idle"
                    /\ Shape(CallsOf(t)) = DisableOrder(0)

\* the last supply of three is enabled and its power-on delay is still to
\* come: enabled is false
C14_Witness ==
    \E t \in Tasks :
        /\ EnableRan(t) /\ pc[t] = "enable_delay" /\ data.count = 3
        /\ i[t] = 2 /\ data.pon_delay_us[2] # U32Zero
        /\ ~data.enabled

\* C15: an enable() pass never makes more than one set-voltage and one
\* enable request per supply, a disable() pass never more than one disable
\* request per supply, and every operation in progress eventually returns,
\* unless a collaborator call does not return to it (pc = "oops").
C15_RunToCompletion ==
    /\ [](\A t \in Tasks : \A k \in 0 .. data.count - 1 :
            /\ Cardinality(At(CallsOf(t), "regulator_set_voltage", k)) <= 1
            /\ Cardinality(At(CallsOf(t), "regulator_enable", k)) <= 1
            /\ Cardinality(At(CallsOf(t), "regulator_disable", k)) <= 1)
    /\ \A t \in Tasks :
          (pc[t] \notin {"idle", "oops"}) ~> (pc[t] \in {"idle", "oops"})

\* a disable() pass over three supplies has returned
C15_Witness ==
    \E t \in Tasks :
        /\ DisableRan(t) /\ pc[t] = "idle" /\ data.count = 3
        /\ Len(CallsOf(t)) >= 3

\* C17 (as claimed): a successful enable request never reaches a supply
\* that still holds an earlier successful enable request, one that no
\* disable request has followed.
C17_BalancedEnables ==
    [][\A k \in DOMAIN supply :
          (/\ Len(calls') = Len(calls) + 1
           /\ calls'[Len(calls')].fn = "regulator_enable"
           /\ calls'[Len(calls')].i = k
           /\ calls'[Len(calls')].returned
           /\ calls'[Len(calls')].rc = 0)
          => ~supply[k].held]_vars

\* C18: a disable request is about to be issued only to a supply whose
\* latest request was a successful enable request and which still holds
\* one, so the disable requests of a supply never outnumber its successful
\* enable requests.
C18_NoUnbalancedDisable ==
    \A t \in Tasks :
        pc[t] = "disable_regulator"
        => /\ supply[i[t]].last = "regulator_enable"
           /\ supply[i[t]].held

\* the disable request for the last of three supplies is about to be made
C18_Witness ==
    \E t \in Tasks :
        pc[t] = "disable_regulator" /\ i[t] = 2 /\ data.count = 3

\* C19: while no operation is in progress on a registered sequencer,
\* enabled is true exactly when the latest request to every supply was a
\* successful enable request; after an enable() pass that returned success
\* and before anything else has run enabled is true, and after a disable()
\* pass it is false.
C19_FlagMeaning ==
    (drvdata /\ \A t \in Tasks : pc[t] = "idle")
    => /\ data.enabled <=>
             \A k \in 0 .. data.count - 1 :
                 supply[k].last = "regulator_enable" /\ supply[k].held
       /\ \A t \in SerialTasks :
             /\ (EnableRan(t) /\ ret[t] = 0) => data.enabled
             /\ (EnableRan(t) /\ ret[t] # 0) => ~data.enabled
             /\ DisableRan(t) => ~data.enabled

\* a sequencer of three is enabled, its latest pass having returned success
C19_Witness ==
    /\ drvdata /\ data.enabled /\ data.count = 3
    /\ \A t \in Tasks : pc[t] = "idle"
    /\ \E t \in Tasks : EnableRan(t) /\ ret[t] = 0

C16_FlagInconsistent ==
    \E t \in Tasks, u \in Tasks :
        /\ EnableRan(t) /\ pc[t] = "idle" /\ ret[t] = 0
        /\ DisableRan(u) /\ pc[u] = "idle"
        /\ data.enabled
        /\ \A k \in 0 .. data.count - 1 : supply[k].last = "regulator_disable"

====
